---- MODULE Spec2Model ----
(***************************************************************************)
(* Connection handshake of the gossip layer                                *)
(* (core/gossip/messages/connect_message.py): send_connection_request and  *)
(* the handlers of ConnectSyn, ConnectAck, ConnectSynAck,                  *)
(* DisconnectRequest and KeepAlive messages, run by two nodes over a       *)
(* transport that may also hand a node forged, relayed or replayed         *)
(* messages.                                                               *)
(***************************************************************************)
EXTENDS Integers, Sequences, FiniteSets, TLC

VARIABLES
    NodeMap,    \* NodeMap[n]: gossiper.NodeMap of node n, identifier -> Node
    blacklist,  \* blacklist[n]: gossiper.blacklist of node n
    net,        \* messages handed to send_message and not yet delivered
    last,       \* the operation that ran last at some node, and its input
    sent,       \* the send_message calls of the operation that ran last
    fault,      \* TRUE iff the operation that ran last raised out of its body
    hs,         \* progress of the uninterrupted exchange Syn, Ack, SynAck
    heard,      \* <<l, x>>: node x has been handed a Syn that node l sent
    thr,        \* thr[t]: the message and the position of handler thread t
    gate        \* an EventHandler: its subscribers, and its last fire

vars == <<NodeMap, blacklist, net, last, sent, fault, hs, heard, thr, gate>>

----------------------------------------------------------------------------
(* Bounds of the model                                                     *)

\* messages the transport holds at once
MaxInFlight == 2
\* subscribers of an EventHandler
MaxSubs == 3
\* the largest argument an EventHandler is fired with
MaxArg == 12
\* length of a node identifier, in characters
IdLen == 10

----------------------------------------------------------------------------
(* Identities, addresses, names                                            *)

\* the nodes that run the handlers
Nodes == {"A", "B"}
\* every identifier a message may name; "C" is a third party
Ids == {"A", "B", "C"}

Other(n) == IF n = "A" THEN "B" ELSE "A"

\* the characters of an identifier (identifiers are longer than the prefix)
IdChars(id) == [i \in 1..IdLen |-> IF i = 1 THEN id ELSE "0"]

\* msg.OriginatorID[:8]
PrefixLen == 8
Prefix(id) == SubSeq(IdChars(id), 1, IF IdLen < PrefixLen THEN IdLen ELSE PrefixLen)

Addresses == {<<"h1", 5001>>, <<"h2", 5002>>}
\* a name is a string of characters; the empty one stands for None and ""
NoName == <<>>
Names == {NoName, <<"n">>}

\* gossiper.LocalNode.endpoint_host, endpoint_port and Name
LocalAddress(n) == IF n = "A" THEN <<"h1", 5001>> ELSE <<"h2", 5002>>
LocalName(n) == IF n = "A" THEN <<"n">> ELSE NoName

----------------------------------------------------------------------------
(* Messages                                                                *)

ConnectSyn == "/gossip.messages.ConnectMessage/ConnectSyn"
ConnectAck == "/gossip.messages.ConnectMessage/ConnectAck"
ConnectSynAck == "/gossip.messages.ConnectMessage/ConnectSynAck"
DisconnectRequest == "/ConnectMessage/DisconnectRequest"
KeepAlive == "/gossip.messages.ConnectMessage/KeepAlive"

MessageTypes == {ConnectSyn, ConnectAck, ConnectSynAck, DisconnectRequest, KeepAlive}

\* common.NullIdentifier
NullIdentifier == 0
\* one identifier more than the messages in flight: a reply finds a fresh one
MsgIds == 1..(MaxInFlight + 1)

DefaultAddress == <<"127.0.0.1", 0>>

\* a message as its constructor leaves it: not yet signed, not yet sent
NewMessage(type) ==
    [MessageType |-> type, Identifier |-> NullIdentifier,
     OriginatorID |-> "", SenderID |-> "",
     InReplyTo |-> NullIdentifier,
     NetAddress |-> DefaultAddress, Name |-> NoName]

ConnectSynMessage == NewMessage(ConnectSyn)
ConnectAckMessage == NewMessage(ConnectAck)
ConnectSynAckMessage == NewMessage(ConnectSynAck)

----------------------------------------------------------------------------
(* The registry                                                            *)

\* node.Node(address, identifier, name): a node that is not yet a peer
Node(address, identifier, name) ==
    [Identifier |-> identifier, NetAddress |-> address, Name |-> name,
     is_peer |-> FALSE]

\* gossiper.add_node(peer): an upsert that keeps an existing entry's is_peer
add_node(map, peer) ==
    LET id == peer.Identifier
        kept == IF id \in DOMAIN map THEN map[id].is_peer ELSE peer.is_peer
    IN  [k \in DOMAIN map \cup {id} |->
            IF k = id THEN [peer EXCEPT !.is_peer = kept] ELSE map[k]]

\* gossiper.drop_node(identifier): removes the entry, nothing if it is absent
drop_node(map, id) == [k \in DOMAIN map \ {id} |-> map[k]]

\* the result of a handler: the registry, the send_message calls, a fault
Ret(map, out, flt) == [map |-> map, out |-> out, fault |-> flt]

\* gossiper.send_message(msg, peerid) of node self: stamps and hands over
send_message(self, msg, peerid, id) ==
    [to |-> peerid,
     msg |-> [msg EXCEPT !.Identifier = id, !.OriginatorID = self,
                         !.SenderID = self]]

----------------------------------------------------------------------------
(* The handlers                                                            *)

Range(q) == {q[i] : i \in DOMAIN q}

\* if msg.OriginatorID in gossiper.blacklist: return
Blacklisted(msg, bl) == msg.OriginatorID \in bl

\* the check of the sender left out
RelayedNever(msg) == FALSE

\* if msg.SenderID != msg.OriginatorID: return
Relayed(msg) == msg.SenderID # msg.OriginatorID

\* the default name left out
SynNameRaw(msg) == msg.Name

\* name = msg.Name; if not name: name = msg.OriginatorID[:8]
SynName(msg) == IF msg.Name = NoName THEN Prefix(msg.OriginatorID) ELSE msg.Name

\* reply = ConnectAckMessage(); reply.InReplyTo = msg.Identifier
AckReply(msg) == [ConnectAckMessage EXCEPT !.InReplyTo = msg.Identifier]

\* the reply not tied to the message it answers
SynAckReplyUncorrelated(msg) == ConnectSynAckMessage

\* reply = ConnectSynAckMessage(); reply.InReplyTo = msg.Identifier
SynAckReply(msg) == [ConnectSynAckMessage EXCEPT !.InReplyTo = msg.Identifier]

\* gossiper.NodeMap[id].is_peer = True; the subscript raises on a missing key
set_is_peer(map, id) ==
    IF id \in DOMAIN map
    THEN Ret([map EXCEPT ![id].is_peer = TRUE], <<>>, FALSE)
    ELSE Ret(map, <<>>, TRUE)

\* the promotion left out
MarkPeerNever(map, id) == Ret(map, <<>>, FALSE)

\* the membership test left out
MarkPeerUnguarded(map, id) == set_is_peer(map, id)

\* if msg.OriginatorID in gossiper.NodeMap: ....is_peer = True
MarkPeer(map, id) ==
    IF id \in DOMAIN map THEN set_is_peer(map, id) ELSE Ret(map, <<>>, FALSE)

\* logger.warn(..., gossiper.NodeMap[id]); gossiper.drop_node(id)
DropLogged(map, id) == Ret(drop_node(map, id), <<>>, id \notin DOMAIN map)

\* the originator made a peer as soon as it is heard
connect_syn_handler_promoting(self, msg, map, bl, id) ==
    IF Blacklisted(msg, bl) THEN Ret(map, <<>>, FALSE)
    ELSE IF Relayed(msg) THEN Ret(map, <<>>, FALSE)
    ELSE LET orignode == Node(msg.NetAddress, msg.OriginatorID, SynName(msg))
         IN  Ret([add_node(map, orignode) EXCEPT ![msg.OriginatorID].is_peer = TRUE],
                 <<send_message(self, AckReply(msg), msg.OriginatorID, id)>>,
                 FALSE)

\* the entry stored over the old one, not through add_node
connect_syn_handler_replacing(self, msg, map, bl, id) ==
    IF Blacklisted(msg, bl) THEN Ret(map, <<>>, FALSE)
    ELSE IF Relayed(msg) THEN Ret(map, <<>>, FALSE)
    ELSE LET orignode == Node(msg.NetAddress, msg.OriginatorID, SynName(msg))
         IN  Ret([k \in DOMAIN map \cup {msg.OriginatorID} |->
                     IF k = msg.OriginatorID THEN orignode ELSE map[k]],
                 <<send_message(self, AckReply(msg), msg.OriginatorID, id)>>,
                 FALSE)

\* connect_syn_handler(msg, gossiper); id is the identifier of a reply
connect_syn_handler(self, msg, map, bl, id) ==
    IF Blacklisted(msg, bl) THEN Ret(map, <<>>, FALSE)
    ELSE IF Relayed(msg) THEN Ret(map, <<>>, FALSE)
    ELSE LET orignode == Node(msg.NetAddress, msg.OriginatorID, SynName(msg))
         IN  Ret(add_node(map, orignode),
                 <<send_message(self, AckReply(msg), msg.OriginatorID, id)>>,
                 FALSE)

\* the sender test of the Syn and SynAck handlers copied into this one
connect_ack_handler_direct_only(self, msg, map, bl, id) ==
    IF Blacklisted(msg, bl) THEN Ret(map, <<>>, FALSE)
    ELSE IF Relayed(msg) THEN Ret(map, <<>>, FALSE)
    ELSE LET r == MarkPeer(map, msg.OriginatorID)
         IN  IF r.fault THEN r
             ELSE Ret(r.map,
                      <<send_message(self, SynAckReply(msg), msg.OriginatorID, id)>>,
                      FALSE)

\* connect_ack_handler(msg, gossiper)
connect_ack_handler(self, msg, map, bl, id) ==
    IF Blacklisted(msg, bl) THEN Ret(map, <<>>, FALSE)
    ELSE LET r == MarkPeer(map, msg.OriginatorID)
         IN  IF r.fault THEN r
             ELSE Ret(r.map,
                      <<send_message(self, SynAckReply(msg), msg.OriginatorID, id)>>,
                      FALSE)

\* the SynAck taken as a mere sign of life
connect_syn_ack_handler_inert(self, msg, map, bl, id) == Ret(map, <<>>, FALSE)

\* connect_syn_ack_handler(msg, gossiper)
connect_syn_ack_handler(self, msg, map, bl, id) ==
    IF Blacklisted(msg, bl) THEN Ret(map, <<>>, FALSE)
    ELSE IF Relayed(msg) THEN Ret(map, <<>>, FALSE)
    ELSE MarkPeer(map, msg.OriginatorID)

\* every entry dropped, not only the originator's
disconnect_request_handler_clearing(self, msg, map, bl, id) ==
    IF msg.OriginatorID \in DOMAIN map
    THEN Ret(<<>>, <<>>, FALSE)
    ELSE Ret(map, <<>>, FALSE)

\* only entries that are peers dropped
disconnect_request_handler_peers_only(self, msg, map, bl, id) ==
    IF msg.OriginatorID \in DOMAIN map /\ map[msg.OriginatorID].is_peer
    THEN DropLogged(map, msg.OriginatorID)
    ELSE Ret(map, <<>>, FALSE)

\* disconnect_request_handler(msg, gossiper)
disconnect_request_handler(self, msg, map, bl, id) ==
    IF msg.OriginatorID \in DOMAIN map
    THEN DropLogged(map, msg.OriginatorID)
    ELSE Ret(map, <<>>, FALSE)

\* a sign of life taken as the end of a handshake
keep_alive_handler_promoting(self, msg, map, bl, id) ==
    MarkPeer(map, msg.OriginatorID)

\* keep_alive_handler(msg, gossiper): pass
keep_alive_handler(self, msg, map, bl, id) == Ret(map, <<>>, FALSE)

\* the candidate registered as a peer at once
send_connection_request_as_peer(self, peer, map, id) ==
    LET request == [ConnectSynMessage EXCEPT !.NetAddress = LocalAddress(self),
                                             !.Name = LocalName(self)]
    IN  Ret(add_node(map, [peer EXCEPT !.is_peer = TRUE]),
            <<send_message(self, request, peer.Identifier, id)>>,
            FALSE)

\* the Syn sent without the candidate being registered
send_connection_request_unregistered(self, peer, map, id) ==
    LET request == [ConnectSynMessage EXCEPT !.NetAddress = LocalAddress(self),
                                             !.Name = LocalName(self)]
    IN  Ret(map, <<send_message(self, request, peer.Identifier, id)>>, FALSE)

\* send_connection_request(gossiper, peer)
send_connection_request(self, peer, map, id) ==
    LET request == [ConnectSynMessage EXCEPT !.NetAddress = LocalAddress(self),
                                             !.Name = LocalName(self)]
    IN  Ret(add_node(map, peer),
            <<send_message(self, request, peer.Identifier, id)>>,
            FALSE)

\* the table of register_message_handlers
Dispatch(type, self, msg, map, bl, id) ==
    CASE type = ConnectSyn -> connect_syn_handler(self, msg, map, bl, id)
      [] type = ConnectAck -> connect_ack_handler(self, msg, map, bl, id)
      [] type = ConnectSynAck -> connect_syn_ack_handler(self, msg, map, bl, id)
      [] type = DisconnectRequest -> disconnect_request_handler(self, msg, map, bl, id)
      [] type = KeepAlive -> keep_alive_handler(self, msg, map, bl, id)

----------------------------------------------------------------------------
(* The transport                                                           *)

\* what a third party, or a replaying transport, may hand to node self
Forged(self, type) ==
    {[MessageType |-> type, Identifier |-> i, OriginatorID |-> o, SenderID |-> s,
      InReplyTo |-> NullIdentifier, NetAddress |-> a, Name |-> nm] :
        i \in MsgIds, o \in Ids \ {self}, s \in Ids \ {self},
        a \in IF type = ConnectSyn THEN Addresses ELSE {DefaultAddress},
        nm \in IF type = ConnectSyn THEN Names ELSE {NoName}}

InFlight(self, type) ==
    {e.msg : e \in {x \in net : x.to = self /\ x.msg.MessageType = type}}

\* the identifiers no live message carries, once m has been taken off the wire
FreeIds(self, m) ==
    MsgIds \ ({e.msg.Identifier : e \in net \ {[to |-> self, msg |-> m]}}
              \cup {m.Identifier})

Min(S) == CHOOSE x \in S : \A y \in S : x <= y

NextId(free) == IF free = {} THEN NullIdentifier ELSE Min(free)

----------------------------------------------------------------------------
(* The observer of the exchange request, Syn, Ack, SynAck                  *)

Idle == [phase |-> 0, init |-> "A"]

Expected(phase) ==
    CASE phase \in {1, 5} -> ConnectSyn
      [] phase \in {2, 6} -> ConnectAck
      [] phase \in {3, 7} -> ConnectSynAck
      [] OTHER -> "none"

\* node self handles msg: the exchange goes on iff msg is what the step
\* before has just sent to self, and is the message the exchange waits for
Advance(self, msg) ==
    IF /\ [to |-> self, msg |-> msg] \in Range(sent)
       /\ msg.MessageType = Expected(hs.phase)
    THEN [hs EXCEPT !.phase = hs.phase + 1]
    ELSE Idle

\* node self asks node peerid for a connection
Begin(self, peerid) ==
    IF peerid \notin Nodes THEN Idle
    ELSE IF hs.phase = 4 /\ hs.init = self THEN [phase |-> 5, init |-> self]
    ELSE [phase |-> 1, init |-> self]

----------------------------------------------------------------------------
(* The state machine                                                       *)

NoOp == [op |-> "none", node |-> "A", msg |-> NewMessage(KeepAlive), pre |-> <<>>]

\* no handler thread runs
NoThreads == <<>>

\* EventHandler("test"): no subscriber, never fired
NewGate == [subs |-> <<>>, fired |-> FALSE, arg |-> 0, result |-> TRUE]

\* nothing registered, nothing sent; the blacklists are what policy made them
Start ==
    /\ NodeMap = [n \in Nodes |-> <<>>]
    /\ net = {}
    /\ last = NoOp
    /\ sent = <<>>
    /\ fault = FALSE
    /\ hs = Idle
    /\ heard = {}
    /\ thr = NoThreads
    /\ gate = NewGate

\* node A with any blacklist, node B idle
Init ==
    /\ Start
    /\ blacklist \in [Nodes -> SUBSET Ids]
    /\ blacklist["A"] \subseteq {"B", "C"}
    /\ blacklist["B"] = {}

\* nodes A and B, each blacklisting the other or not
InitNet ==
    /\ Start
    /\ blacklist \in [Nodes -> SUBSET Ids]
    /\ blacklist["A"] \subseteq {"B", "C"}
    /\ blacklist["B"] \subseteq {"A"}

\* the effect of one operation of node self with result r; wire is what the
\* transport holds afterwards
Effect(self, op, m, r, h, wire) ==
    /\ r.out # <<>> => FreeIds(self, m) # {}
    /\ NodeMap' = [NodeMap EXCEPT ![self] = r.map]
    /\ net' = wire
    /\ last' = [op |-> op, node |-> self, msg |-> m, pre |-> NodeMap[self]]
    /\ sent' = r.out
    /\ fault' = r.fault
    /\ hs' = h
    /\ UNCHANGED <<blacklist, thr, gate>>

\* the transport takes m off the wire and accepts what it can carry
Carry(self, m, out) ==
    (net \ {[to |-> self, msg |-> m]}) \cup {e \in Range(out) : e.to \in Nodes}

Handled(self, m) ==
    Dispatch(m.MessageType, self, m, NodeMap[self], blacklist[self],
             NextId(FreeIds(self, m)))

\* node self handles a message that the transport hands it from anywhere;
\* what self sends in answer is lost
Receive(self, type) ==
    \E m \in Forged(self, type) :
        /\ Effect(self, type, m, Handled(self, m), Advance(self, m), net)
        /\ UNCHANGED heard

\* node self handles a message that another node has sent to it
Deliver(self, type) ==
    \E m \in InFlight(self, type) :
        /\ Cardinality(Carry(self, m, Handled(self, m).out)) <= MaxInFlight
        /\ Effect(self, type, m, Handled(self, m), Advance(self, m),
                  Carry(self, m, Handled(self, m).out))
        /\ heard' = IF type = ConnectSyn
                     THEN heard \cup {<<m.OriginatorID, self>>}
                     ELSE heard

RequestMessage(id) == [NewMessage("request") EXCEPT !.OriginatorID = id]

Requested(self, peer) ==
    send_connection_request(self, peer, NodeMap[self],
                            NextId(FreeIds(self, RequestMessage(peer.Identifier))))

\* node self calls send_connection_request with a node that is not a peer;
\* the Syn is lost
Request(self) ==
    \E id \in Ids \ {self}, a \in Addresses, nm \in Names :
        LET peer == Node(a, id, nm)
        IN  /\ Effect(self, "request", RequestMessage(id), Requested(self, peer),
                      Begin(self, id), net)
            /\ UNCHANGED heard

\* node self calls send_connection_request with the node that another node is
Connect(self) ==
    \E id \in Nodes \ {self} :
        LET peer == Node(LocalAddress(id), id, LocalName(id))
            m == RequestMessage(id)
        IN  /\ Cardinality(Carry(self, m, Requested(self, peer).out)) <= MaxInFlight
            /\ Effect(self, "request", m, Requested(self, peer), Begin(self, id),
                      Carry(self, m, Requested(self, peer).out))
            /\ UNCHANGED heard

\* the transport loses a message
Lose ==
    \E e \in net :
        /\ net' = net \ {e}
        /\ last' = NoOp
        /\ sent' = <<>>
        /\ fault' = FALSE
        /\ hs' = Idle
        /\ UNCHANGED <<NodeMap, blacklist, heard, thr, gate>>

\* one node and whatever the transport hands it
Next ==
    \/ Request("A")
    \/ Receive("A", ConnectSyn)
    \/ Receive("A", ConnectAck)
    \/ Receive("A", ConnectSynAck)
    \/ Receive("A", DisconnectRequest)
    \/ Receive("A", KeepAlive)

Spec == Init /\ [][Next]_vars

\* two nodes that exchange messages over the transport
NextNet ==
    \/ \E self \in Nodes :
        \/ Connect(self)
        \/ Deliver(self, ConnectSyn)
        \/ Deliver(self, ConnectAck)
        \/ Deliver(self, ConnectSynAck)
    \/ Lose

SpecNet == InitNet /\ [][NextNet]_vars

\* two nodes, and a transport that also hands them Acks that nobody sent
NextUnsolicited ==
    \/ NextNet
    \/ \E self \in Nodes : Receive(self, ConnectAck)

SpecUnsolicited == InitNet /\ [][NextUnsolicited]_vars

----------------------------------------------------------------------------
(* The EventHandler of core/tests/test_event_handler.py                    *)

\* TestEventHandler.call1
call1(ival) == ival < 5

\* TestEventHandler.call2
call2(ival) == ival < 10

Callbacks == {"call1", "call2"}

\* the call of a subscriber
Call(handler, ival) ==
    CASE handler = "call1" -> call1(ival)
      [] handler = "call2" -> call2(ival)

\* only the subscriber registered last decides
RECURSIVE fire_last(_, _)
fire_last(subs, ival) ==
    IF subs = <<>> THEN TRUE ELSE Call(subs[Len(subs)], ival)

\* ev.fire(ival): every subscriber is called, in the order of registration,
\* and the results are and-ed; TRUE without subscribers
RECURSIVE fire(_, _)
fire(subs, ival) ==
    IF subs = <<>> THEN TRUE
    ELSE LET result == Call(Head(subs), ival)
         IN  fire(Tail(subs), ival) /\ result

Args == 0..MaxArg

\* ev += handler
Subscribe ==
    \E handler \in Callbacks :
        /\ Len(gate.subs) < MaxSubs
        /\ gate' = [gate EXCEPT !.subs = Append(gate.subs, handler),
                                !.fired = FALSE, !.arg = 0, !.result = TRUE]
        /\ UNCHANGED <<NodeMap, blacklist, net, last, sent, fault, hs, heard, thr>>

\* ev.fire(ival)
Fire ==
    \E ival \in Args :
        /\ gate' = [gate EXCEPT !.fired = TRUE, !.arg = ival,
                                !.result = fire(gate.subs, ival)]
        /\ UNCHANGED <<NodeMap, blacklist, net, last, sent, fault, hs, heard, thr>>

NextGate == Subscribe \/ Fire

SpecGate == Init /\ [][NextGate]_vars

----------------------------------------------------------------------------
(* Two handler threads of node A, a message of originator B each, with no  *)
(* lock around the registry: one action for each step on the registry      *)

Threads == {1, 2}

ConcTypes == {ConnectSyn, ConnectAck, ConnectSynAck, DisconnectRequest}

\* the messages that name originator B, sent by B or relayed by C
ConcMessages ==
    UNION {{m \in Forged("A", type) :
                m.OriginatorID = "B" /\ m.Identifier = 1} : type \in ConcTypes}

\* B as another handshake left it: unknown, known, or a peer
ConcRegistries ==
    LET known == Node(LocalAddress("B"), "B", LocalName("B"))
    IN  {<<>>, add_node(<<>>, known),
         add_node(<<>>, [known EXCEPT !.is_peer = TRUE])}

\* the first statement of the handler of msg
Entry(msg) ==
    IF msg.MessageType = DisconnectRequest THEN "member" ELSE "blacklist"

InitConc ==
    /\ \E reg \in ConcRegistries :
          /\ NodeMap = [n \in Nodes |-> IF n = "A" THEN reg ELSE <<>>]
          /\ last = [NoOp EXCEPT !.pre = reg]
    /\ blacklist \in [Nodes -> SUBSET Ids]
    /\ blacklist["A"] \subseteq {"B"}
    /\ blacklist["B"] = {}
    /\ \E msgs \in [Threads -> ConcMessages] :
          thr = [t \in Threads |-> [msg |-> msgs[t], pc |-> Entry(msgs[t])]]
    /\ net = {}
    /\ sent = <<>>
    /\ fault = FALSE
    /\ hs = Idle
    /\ heard = {}
    /\ gate = NewGate

\* thread t goes on to statement pc
Goto(t, pc) == thr' = [thr EXCEPT ![t].pc = pc]

At(t, pc) == t \in DOMAIN thr /\ thr[t].pc = pc

\* if msg.OriginatorID in gossiper.blacklist: return
TestBlacklist(t) ==
    /\ At(t, "blacklist")
    /\ Goto(t, IF Blacklisted(thr[t].msg, blacklist["A"]) THEN "done"
               ELSE IF thr[t].msg.MessageType = ConnectAck THEN "member"
               ELSE "sender")
    /\ UNCHANGED <<NodeMap, blacklist, net, last, sent, fault, hs, heard, gate>>

\* if msg.SenderID != msg.OriginatorID: return
TestSender(t) ==
    /\ At(t, "sender")
    /\ Goto(t, IF Relayed(thr[t].msg) THEN "done"
               ELSE IF thr[t].msg.MessageType = ConnectSyn THEN "add"
               ELSE "member")
    /\ UNCHANGED <<NodeMap, blacklist, net, last, sent, fault, hs, heard, gate>>

\* if msg.OriginatorID in gossiper.NodeMap:
TestMember(t) ==
    /\ At(t, "member")
    /\ Goto(t, IF thr[t].msg.OriginatorID \in DOMAIN NodeMap["A"]
               THEN IF thr[t].msg.MessageType = DisconnectRequest
                    THEN "lookup" ELSE "write"
               ELSE IF thr[t].msg.MessageType = ConnectAck
                    THEN "send" ELSE "done")
    /\ UNCHANGED <<NodeMap, blacklist, net, last, sent, fault, hs, heard, gate>>

\* gossiper.NodeMap[msg.OriginatorID].is_peer = True
WritePeer(t) ==
    /\ At(t, "write")
    /\ LET r == set_is_peer(NodeMap["A"], thr[t].msg.OriginatorID)
       IN  /\ NodeMap' = [NodeMap EXCEPT !["A"] = r.map]
           /\ fault' = (fault \/ r.fault)
           /\ Goto(t, IF r.fault THEN "raised"
                      ELSE IF thr[t].msg.MessageType = ConnectAck THEN "send"
                      ELSE "done")
    /\ UNCHANGED <<blacklist, net, last, sent, hs, heard, gate>>

\* logger.warn(..., gossiper.NodeMap[msg.OriginatorID])
Lookup(t) ==
    /\ At(t, "lookup")
    /\ LET found == thr[t].msg.OriginatorID \in DOMAIN NodeMap["A"]
       IN  /\ fault' = (fault \/ ~found)
           /\ Goto(t, IF found THEN "drop" ELSE "raised")
    /\ UNCHANGED <<NodeMap, blacklist, net, last, sent, hs, heard, gate>>

\* gossiper.drop_node(msg.OriginatorID)
Drop(t) ==
    /\ At(t, "drop")
    /\ NodeMap' = [NodeMap EXCEPT
                      !["A"] = drop_node(NodeMap["A"], thr[t].msg.OriginatorID)]
    /\ Goto(t, "done")
    /\ UNCHANGED <<blacklist, net, last, sent, fault, hs, heard, gate>>

\* gossiper.add_node(orignode)
Add(t) ==
    /\ At(t, "add")
    /\ LET msg == thr[t].msg
           orignode == Node(msg.NetAddress, msg.OriginatorID, SynName(msg))
       IN  NodeMap' = [NodeMap EXCEPT !["A"] = add_node(NodeMap["A"], orignode)]
    /\ Goto(t, "send")
    /\ UNCHANGED <<blacklist, net, last, sent, fault, hs, heard, gate>>

\* gossiper.send_message(reply, msg.OriginatorID)
Send(t) ==
    /\ At(t, "send")
    /\ LET msg == thr[t].msg
           reply == IF msg.MessageType = ConnectSyn
                    THEN AckReply(msg) ELSE SynAckReply(msg)
       IN  sent' = Append(sent, send_message("A", reply, msg.OriginatorID, t))
    /\ Goto(t, "done")
    /\ UNCHANGED <<NodeMap, blacklist, net, last, fault, hs, heard, gate>>

NextConc ==
    \E t \in Threads :
        \/ TestBlacklist(t)
        \/ TestSender(t)
        \/ TestMember(t)
        \/ WritePeer(t)
        \/ Lookup(t)
        \/ Drop(t)
        \/ Add(t)
        \/ Send(t)

SpecConc == InitConc /\ [][NextConc]_vars

----------------------------------------------------------------------------
(* What the properties speak of: the operation that ran last               *)

L == last.node
M == last.msg
X == last.msg.OriginatorID
Before == last.pre
After == NodeMap[last.node]

Registered(map, id) == id \in DOMAIN map
IsPeer(map, id) == id \in DOMAIN map /\ map[id].is_peer
Direct(m) == m.SenderID = m.OriginatorID
Banned(n, id) == id \in blacklist[n]
Silent == sent = <<>>
Untouched == After = Before

\* exactly one message was sent: of this type, to id, answering m
OneReply(type, id, m) ==
    /\ Len(sent) = 1
    /\ sent[1].to = id
    /\ sent[1].msg.MessageType = type
    /\ sent[1].msg.InReplyTo = m.Identifier

----------------------------------------------------------------------------
(* C1: when node a asks node b for a connection and the Syn, the Ack and   *)
(* the SynAck that follow are each delivered, one after the other with     *)
(* nothing in between and nothing lost, and neither node blacklists the    *)
(* other, then a holds b as a peer and b holds a as a peer; and the same   *)
(* after the four steps have been run a second time from that state.       *)
C1_HandshakeMakesPeers ==
    LET a == hs.init
        b == Other(hs.init)
    IN  (hs.phase \in {4, 8} /\ ~Banned(a, b) /\ ~Banned(b, a))
            => (IsPeer(NodeMap[a], b) /\ IsPeer(NodeMap[b], a))

C1_Witness ==
    /\ hs.phase = 8
    /\ last.op = ConnectSynAck
    /\ IsPeer(NodeMap[hs.init], Other(hs.init))
    /\ IsPeer(NodeMap[Other(hs.init)], hs.init)

(* C2: a Syn, Ack, SynAck or DisconnectRequest whose originator is         *)
(* blacklisted leaves the registry as it was and sends nothing.            *)
C2_BlacklistedIsIgnored ==
    (last.op \in {ConnectSyn, ConnectAck, ConnectSynAck, DisconnectRequest}
        /\ Banned(L, X))
        => (Untouched /\ Silent)

(* C3: a Syn or SynAck whose sender is not its originator leaves the       *)
(* registry as it was and sends nothing.                                   *)
C3_RelayedIsIgnored ==
    (last.op \in {ConnectSyn, ConnectSynAck} /\ ~Direct(M))
        => (Untouched /\ Silent)

C3_Witness ==
    /\ last.op \in {ConnectSyn, ConnectSynAck}
    /\ ~Direct(M)
    /\ ~Banned(L, X)
    /\ Registered(Before, X)
    /\ ~IsPeer(Before, X)

\* a direct Syn of an originator that is not blacklisted has been handled
SynAccepted == last.op = ConnectSyn /\ Direct(M) /\ ~Banned(L, X)

(* C4, as stated: after a direct Syn of a non-blacklisted originator the   *)
(* registry holds the originator with the address and the name of the      *)
(* message, and exactly one Ack, to the originator, answers the Syn.       *)
C4_SynRegistersMessageName ==
    SynAccepted
        => /\ Registered(After, X)
           /\ After[X].NetAddress = M.NetAddress
           /\ After[X].Name = M.Name
           /\ OneReply(ConnectAck, X, M)

(* C4, amended: as above, but the entry carries the name of the message    *)
(* only if the message has one; if its name is empty, the entry's name is  *)
(* the first 8 characters of the originator's identifier.                  *)
C4_SynRegistersAndAcks ==
    SynAccepted
        => /\ Registered(After, X)
           /\ After[X].NetAddress = M.NetAddress
           /\ After[X].Name = IF M.Name = <<>>
                              THEN SubSeq(IdChars(X), 1, 8) ELSE M.Name
           /\ OneReply(ConnectAck, X, M)

C4_Witness ==
    /\ SynAccepted
    /\ M.Name = <<>>
    /\ Registered(Before, X)
    /\ Before[X].NetAddress # M.NetAddress
    /\ After[X].NetAddress = M.NetAddress
    /\ Len(After[X].Name) = 8
    /\ OneReply(ConnectAck, X, M)

(* C5: after an Ack whose originator is not blacklisted and was in the     *)
(* registry, the originator is a peer and exactly one SynAck, to the       *)
(* originator, answers the Ack.                                            *)
C5_AckPromotesAndReplies ==
    (last.op = ConnectAck /\ ~Banned(L, X) /\ Registered(Before, X))
        => (IsPeer(After, X) /\ OneReply(ConnectSynAck, X, M))

C5_Witness ==
    /\ last.op = ConnectAck
    /\ ~Banned(L, X)
    /\ Registered(Before, X)
    /\ ~IsPeer(Before, X)
    /\ IsPeer(After, X)
    /\ OneReply(ConnectSynAck, X, M)

(* C6: after a direct SynAck of a non-blacklisted originator that was in   *)
(* the registry, the originator is a peer; and no SynAck is ever answered. *)
C6_SynAckPromotesSilently ==
    last.op = ConnectSynAck
        => /\ Silent
           /\ (Direct(M) /\ ~Banned(L, X) /\ Registered(Before, X))
                => IsPeer(After, X)

C6_Witness ==
    /\ last.op = ConnectSynAck
    /\ Direct(M)
    /\ ~Banned(L, X)
    /\ Registered(Before, X)
    /\ ~IsPeer(Before, X)
    /\ IsPeer(After, X)
    /\ Silent

(* C7: after a DisconnectRequest whose originator was in the registry,     *)
(* peer or not, the originator is not in the registry and nothing is sent. *)
C7_DisconnectRemoves ==
    (last.op = DisconnectRequest /\ Registered(Before, X))
        => (~Registered(After, X) /\ Silent)

C7_Witness ==
    /\ last.op = DisconnectRequest
    /\ Registered(Before, X)
    /\ ~IsPeer(Before, X)
    /\ ~Registered(After, X)
    /\ Silent

(* C8: an Ack whose originator is not in the registry does nothing at all: *)
(* the registry is as it was, nothing is raised, nothing is sent.          *)
C8_AckOfUnknownIsNoOp ==
    (last.op = ConnectAck /\ ~Registered(Before, X))
        => (Untouched /\ ~fault /\ Silent)

C10_StaleIsAbsorbed ==
    /\ (last.op \in {ConnectSynAck, DisconnectRequest} /\ ~Registered(Before, X))
            => (Untouched /\ Silent /\ ~fault)
    /\ (last.op \in {ConnectSyn, ConnectAck, ConnectSynAck} /\ Banned(L, X))
            => ~fault
    /\ (last.op \in {ConnectSyn, ConnectSynAck} /\ ~Direct(M))
            => ~fault

C10_Witness ==
    /\ last.op = ConnectSynAck
    /\ Direct(M)
    /\ ~Banned(L, X)
    /\ ~Registered(Before, X)
    /\ Before # <<>>
    /\ Untouched
    /\ ~fault

\* some operation has run
Ran == last.op # "none"

(* C11: a registry that starts empty never holds a peer that was not made  *)
(* one by an Ack, or a direct SynAck, of that very originator, not         *)
(* blacklisted: an entry becomes a peer only in such a step, and an entry  *)
(* that a step creates is not a peer.                                      *)
C11_PeerOnlyByAckOrSynAck ==
    /\ ~Ran => \A id \in Ids : ~IsPeer(After, id)
    /\ Ran => \A id \in Ids :
        /\ (IsPeer(After, id) /\ ~IsPeer(Before, id))
              => /\ X = id
                 /\ ~Banned(L, id)
                 /\ \/ last.op = ConnectAck
                    \/ last.op = ConnectSynAck /\ Direct(M)
        /\ (Registered(After, id) /\ ~Registered(Before, id))
              => ~IsPeer(After, id)

C11_Witness ==
    /\ last.op = "request"
    /\ ~Registered(Before, X)
    /\ Registered(After, X)
    /\ ~IsPeer(After, X)
    /\ \E id \in Ids : IsPeer(After, id)

(* C14: a KeepAlive, of any originator and in any state of the registry,   *)
(* leaves the registry as it was, sends nothing and raises nothing.        *)
C14_KeepAliveChangesNothing ==
    last.op = KeepAlive => (Untouched /\ Silent /\ ~fault)

C14_Witness ==
    /\ last.op = KeepAlive
    /\ Registered(Before, X)
    /\ ~IsPeer(Before, X)
    /\ ~Direct(M)
    /\ Untouched

ReplyId == IF sent = <<>> THEN NullIdentifier ELSE sent[1].msg.Identifier

(* C16: what an Ack does is the same whoever its sender is: the same       *)
(* registry, the same reply; so an Ack of a registered, non-blacklisted    *)
(* originator that another node relays makes the originator a peer and is  *)
(* answered by a SynAck.                                                   *)
C16_AckIgnoresSender ==
    last.op = ConnectAck
        => /\ \A s \in Ids :
                connect_ack_handler(L, [M EXCEPT !.SenderID = s], Before,
                                    blacklist[L], ReplyId)
                    = Ret(After, sent, fault)
           /\ (~Direct(M) /\ ~Banned(L, X) /\ Registered(Before, X))
                => (IsPeer(After, X) /\ OneReply(ConnectSynAck, X, M))

C16_Witness ==
    /\ last.op = ConnectAck
    /\ ~Direct(M)
    /\ ~IsPeer(Before, X)
    /\ IsPeer(After, X)
    /\ OneReply(ConnectSynAck, X, M)

(* C18: a DisconnectRequest that names an originator and comes from        *)
(* another sender does not remove the originator from the registry.        *)
C18_RelayedDisconnectIsIgnored ==
    (last.op = DisconnectRequest /\ ~Direct(M) /\ Registered(Before, X))
        => Registered(After, X)

(* C19: send_connection_request registers the candidate and sends exactly  *)
(* one Syn, to the candidate, with the local node's host, port and name;   *)
(* and whenever a Syn of a node is in flight to another, the sender holds  *)
(* the receiver in its registry.                                           *)
C19_RequestRegistersThenSends ==
    /\ last.op = "request"
        => /\ Registered(After, X)
           /\ Len(sent) = 1
           /\ sent[1].to = X
           /\ sent[1].msg.MessageType = ConnectSyn
           /\ sent[1].msg.OriginatorID = L
           /\ sent[1].msg.NetAddress = LocalAddress(L)
           /\ sent[1].msg.Name = LocalName(L)
    /\ \A e \in net :
        e.msg.MessageType = ConnectSyn
            => Registered(NodeMap[e.msg.OriginatorID], e.to)

C19_Witness ==
    /\ last.op = ConnectAck
    /\ \E e \in net :
        /\ e.msg.MessageType = ConnectSyn
        /\ IsPeer(NodeMap[e.msg.OriginatorID], e.to)

(* C20: an operation changes at most the entry of the identifier that its  *)
(* message, or its candidate, names: every other entry is there or not as  *)
(* before, and as it was; and no step changes a blacklist.                 *)
C20_Frame ==
    /\ [](Ran => \A id \in Ids \ {X} :
            /\ Registered(After, id) = Registered(Before, id)
            /\ Registered(Before, id) => After[id] = Before[id])
    /\ [][blacklist' = blacklist]_vars

C20_Witness ==
    /\ last.op = DisconnectRequest
    /\ Registered(Before, X)
    /\ ~Registered(After, X)
    /\ \E id \in Ids \ {X} : IsPeer(After, id) /\ After[id] = Before[id]

(* C17: whenever the Ack handler of node l makes x a peer, x has before    *)
(* been handed a Syn that l sent with send_connection_request, also when   *)
(* the transport hands over Acks that were not asked for.                  *)
C17_AckAnswersOwnSyn ==
    (last.op = ConnectAck /\ ~IsPeer(Before, X) /\ IsPeer(After, X))
        => <<L, X>> \in heard

(* C13: fire(x) of an EventHandler is true exactly when every subscriber   *)
(* is true of x, and is true without subscribers; with the subscribers     *)
(* v < 5 and v < 10, fire(2) is true, fire(7) and fire(12) are false.      *)
C13_FireIsConjunction ==
    gate.fired
        => /\ gate.result
                = (\A i \in 1..Len(gate.subs) : Call(gate.subs[i], gate.arg))
           /\ gate.subs = <<>> => gate.result
           /\ gate.subs = <<"call1", "call2">>
                => /\ gate.arg = 2 => gate.result
                   /\ gate.arg \in {7, 12} => ~gate.result

C13_Witness ==
    /\ gate.fired
    /\ gate.subs = <<"call1", "call2">>
    /\ gate.arg = 7
    /\ ~gate.result

(* C12: when the handlers of two messages of the same originator run       *)
(* concurrently, their steps on the registry interleaved in any order, no  *)
(* handler raises a fault and the registry they leave is the one that      *)
(* handling the two messages one after the other, in some order, leaves.   *)
Returned == \A t \in DOMAIN thr : thr[t].pc \in {"done", "raised"}

Serial(first, second) ==
    LET one == Dispatch(first.MessageType, "A", first, last.pre,
                        blacklist["A"], 1)
    IN  Dispatch(second.MessageType, "A", second, one.map,
                 blacklist["A"], 2).map

C12_ConcurrentIsSerial ==
    (DOMAIN thr = Threads /\ Returned)
        => /\ ~fault
           /\ NodeMap["A"] \in {Serial(thr[1].msg, thr[2].msg),
                                Serial(thr[2].msg, thr[1].msg)}

====
